---- MODULE Spec2Model ----
\* A model of irctk's Bot (src/irctk/bot.py): the context-dispatch loop
\* _parse_input, the registration API (command, event, add_command,
\* add_event, remove_command, remove_event) and reply.  PluginHandler (with
\* its worker pool), IrcWrapper and ReloadHandler are not part of the
\* sources; their operations are modelled from the specification's contracts.
\*
\* A Python str is a sequence of one-character strings.  A dict with
\* optional keys is a record with a field "keys" holding the keys that are
\* present; dict.get(k) is an optional value: <<v>> when present, <<>>
\* (None) when absent.  A reference to a context dict is either a reference
\* to the live dict self.irc.context or a dict of its own (a copy).
EXTENDS Integers, Sequences, FiniteSets, TLC

VARIABLES
    context,   \* self.irc.context, the live context dict
    lock,      \* holder of self.irc.lock: "free" or "dispatcher"
    pc,        \* position of the _parse_input thread
    args,      \* local `args` of _parse_input (optional value)
    command,   \* local `command` of _parse_input (optional value)
    message,   \* local `message` of _parse_input (optional value)
    i,         \* index of the running `for` loop over PLUGINS / EVENTS
    PLUGINS,   \* self.config['PLUGINS']: list of descriptors
    EVENTS,    \* self.config['EVENTS']: list of descriptors
    queue,     \* the worker pool's task queue
    matched,   \* history: passes of the matching body over the live context
    enq,       \* history: <<kind, hook>> enqueued by the running cycle
    rpc,       \* position of one reply call
    rin,       \* the arguments of the reply call
    rest,      \* argument of the pending handle_long_message call
    messages,  \* local list `messages` of reply
    sent,      \* calls made to self.irc.send_message, in order
    failed,    \* invocations whose function raised inside a worker
    running,   \* invocations taken by workers and not yet finished
    din,       \* the arguments of the last use of the command decorator
    dret       \* what that use of the decorator returned

dispatchVars == <<context, lock, pc, args, command, message, i, PLUGINS, EVENTS,
                  queue, matched, enq, failed, running, din, dret>>
replyVars == <<rpc, rin, rest, messages, sent>>
vars == <<context, lock, pc, args, command, message, i, PLUGINS, EVENTS, queue,
          matched, enq, rpc, rin, rest, messages, sent, failed, running, din, dret>>

----------------------------------------------------------------------------
\* Bounds of the model

MaxQueue == 1
MaxMsgLen == 5
MaxLimit == 3
MaxMatched == 2

\* Python strings

EmptyStr == <<>>

UpperChars == {"J", "P"}
LowerChars == {"j", "p", "q", "n", "c", "x", "a", "b"}

\* str.startswith
StartsWith(s, p) ==
    /\ Len(s) >= Len(p)
    /\ SubSeq(s, 1, Len(p)) = p

\* substring search: `sub` occurs somewhere within `s`
Contains(s, sub) ==
    \E k \in 0..(Len(s) - Len(sub)) : SubSeq(s, k + 1, k + Len(sub)) = sub

\* str.isupper: at least one cased character and no lower-case one
IsUpper(s) ==
    /\ \E k \in 1..Len(s) : s[k] \in UpperChars
    /\ \A k \in 1..Len(s) : s[k] \notin LowerChars

\* Optional values and truthiness

None == <<>>
Some(v) == <<v>>
\* truth value of an optional sequence/string: None and empty are false
Truthy(o) == o # None /\ Len(o[1]) > 0

\* Context dicts

ContextKeys == {"sender", "user", "command", "args", "message", "stale"}

EmptyDict ==
    [keys |-> {}, sender |-> EmptyStr, user |-> EmptyStr, command |-> EmptyStr,
     args |-> <<>>, message |-> EmptyStr, stale |-> FALSE]

\* dict.get(k)
Get(d, k) == IF k \in d.keys THEN Some(d[k]) ELSE None

\* self.context_stale: self.irc.context.get('stale', True)
context_stale(d) == IF "stale" \in d.keys THEN d.stale ELSE TRUE

\* self.irc.context['stale'] = True
LeaveFresh(d) == d
MarkStale(d) == [d EXCEPT !.keys = @ \cup {"stale"}, !.stale = TRUE]

\* References to context dicts: the live dict itself, or a dict of its own
LiveRef == [alias |-> TRUE, val |-> EmptyDict]
OwnRef(d) == [alias |-> FALSE, val |-> d]
Deref(ref, live) == IF ref.alias THEN live ELSE ref.val

\* dict(self.irc.context): a new dict holding the live dict's keys and values
AliasContext(live) == LiveRef
CopyContext(live) == OwnRef(live)

----------------------------------------------------------------------------
\* Inputs of the model

\* default_config['CMD_PREFIX']
CMD_PREFIX == <<".">>

Funcs == {"f1", "f2"}
PluginHooks == {<<"p">>, <<"q">>}
EventHooks == {<<"J">>}

\* a context record as ContextSource publishes it: freshness flag cleared,
\* the command key present or not
Line(cmd, a, m) ==
    [keys |-> IF cmd = None THEN ContextKeys \ {"command"} ELSE ContextKeys,
     sender |-> <<"#", "c">>, user |-> <<"n">>,
     command |-> IF cmd = None THEN EmptyStr ELSE cmd[1],
     args |-> a, message |-> m, stale |-> FALSE]

Lines ==
    { Line(Some(<<"J">>), << <<"x">> >>, <<".", "p">>),
      Line(Some(<<"j">>), << <<"x">> >>, <<".", "q", ".", "p">>),
      Line(Some(<<"J">>), <<>>, <<".", "p">>),
      Line(None, << <<"x">> >>, <<"p", ".", "p">>) }

----------------------------------------------------------------------------
\* Registry descriptors

\* a descriptor dict: 'context' is absent (None) until a cycle assigns it
Descriptor(hook, funcs) == [hook |-> hook, funcs |-> funcs, context |-> None]

Range(s) == {s[k] : k \in 1..Len(s)}

\* PluginHandler.enqueue_plugin / Registry.enqueueMatch: whether the text
\* triggers the hook.  A command hook (already prefixed) is searched within
\* the message; an event hook is compared with the command.
HookMatches(kind, hook, text) ==
    IF kind = "command" THEN Contains(text, hook) ELSE text = hook

\* the invocation handed to the worker pool: the descriptor's functions and
\* the dict its 'context' refers to.  `seen` is history: the live context's
\* value when the invocation was enqueued.
Task(kind, d, live) ==
    [kind |-> kind, hook |-> d.hook, funcs |-> d.funcs, snap |-> d.context[1],
     seen |-> live]

----------------------------------------------------------------------------
\* The registry (PluginHandler), writes to self.config[plugin_list]

\* PluginHandler.update_plugins / Registry.register: the descriptor bound to
\* the hook is replaced as a whole, a new hook is appended
AppendPlugin(list, plugin) == Append(list, plugin)
update_plugins(list, plugin) ==
    IF \E k \in 1..Len(list) : list[k].hook = plugin.hook
    THEN [k \in 1..Len(list) |->
            IF list[k].hook = plugin.hook THEN plugin ELSE list[k]]
    ELSE Append(list, plugin)

\* PluginHandler.add_plugin: the imperative equivalent of the decorators
add_plugin(list, hook, func) == update_plugins(list, Descriptor(hook, <<func>>))

\* PluginHandler.remove_plugin / Registry.remove: one function is unbound,
\* a descriptor left without functions is removed
Unbind(list, hook, func) ==
    [k \in 1..Len(list) |->
        IF list[k].hook = hook
        THEN [list[k] EXCEPT !.funcs = SelectSeq(@, LAMBDA g : g # func)]
        ELSE list[k]]
KeepEmptied(list, hook, func) == Unbind(list, hook, func)
remove_plugin(list, hook, func) ==
    SelectSeq(Unbind(list, hook, func), LAMBDA d : d.funcs # <<>>)

\* Registry.lookup
Lookup(list, hook) == {d \in Range(list) : d.hook = hook}

\* The registration calls below take neither irc.lock nor any lock shared
\* with the loops of _parse_input: they may run between any two steps of a
\* cycle and change the very lists the cycle is iterating.

\* Bot.command(hook)(func): plugin = {'hook': hook, 'funcs': [func]}
CommandDescriptor(hook, func) == Descriptor(hook, <<func>>)

\* Bot.event(hook)(func)
EventDescriptor(hook, func) == Descriptor(hook, <<func>>)

Command(hook, func) ==
    /\ PLUGINS' = update_plugins(PLUGINS, CommandDescriptor(hook, func))
    /\ UNCHANGED <<context, lock, pc, args, command, message, i, EVENTS, queue,
                   matched, enq, rpc, rin, rest, messages, sent,
                   failed, running, din, dret>>

Event(hook, func) ==
    /\ EVENTS' = update_plugins(EVENTS, EventDescriptor(hook, func))
    /\ UNCHANGED <<context, lock, pc, args, command, message, i, PLUGINS, queue,
                   matched, enq, rpc, rin, rest, messages, sent,
                   failed, running, din, dret>>

AddCommand(hook, func) ==
    /\ PLUGINS' = add_plugin(PLUGINS, hook, func)
    /\ UNCHANGED <<context, lock, pc, args, command, message, i, EVENTS, queue,
                   matched, enq, rpc, rin, rest, messages, sent,
                   failed, running, din, dret>>

AddEvent(hook, func) ==
    /\ EVENTS' = add_plugin(EVENTS, hook, func)
    /\ UNCHANGED <<context, lock, pc, args, command, message, i, PLUGINS, queue,
                   matched, enq, rpc, rin, rest, messages, sent,
                   failed, running, din, dret>>

RemoveCommand(hook, func) ==
    /\ PLUGINS' = remove_plugin(PLUGINS, hook, func)
    /\ UNCHANGED <<context, lock, pc, args, command, message, i, EVENTS, queue,
                   matched, enq, rpc, rin, rest, messages, sent,
                   failed, running, din, dret>>

RemoveEvent(hook, func) ==
    /\ EVENTS' = remove_plugin(EVENTS, hook, func)
    /\ UNCHANGED <<context, lock, pc, args, command, message, i, PLUGINS, queue,
                   matched, enq, rpc, rin, rest, messages, sent,
                   failed, running, din, dret>>

----------------------------------------------------------------------------
\* ContextSource (IrcWrapper): overwrites the live context under the lock

Publish(line) ==
    /\ lock = "free"
    /\ context' = line
    /\ matched' = 0
    /\ UNCHANGED <<lock, pc, args, command, message, i, PLUGINS, EVENTS, queue,
                   enq, rpc, rin, rest, messages, sent,
                   failed, running, din, dret>>

\* WorkerPool: a worker takes the oldest invocation and runs its functions
WorkerRun ==
    /\ queue # <<>>
    /\ queue' = Tail(queue)
    /\ UNCHANGED <<context, lock, pc, args, command, message, i, PLUGINS,
                   EVENTS, matched, enq, rpc, rin, rest, messages, sent,
                   failed, running, din, dret>>

----------------------------------------------------------------------------
\* The Dispatcher: Bot._parse_input

\* time.sleep(wait); with self.irc.lock: read args, command, message
\* the body run without taking the lock
WithoutLock == "free"
\* with self.irc.lock: the lock's holder for the whole body
WithLock == "dispatcher"

Acquire ==
    /\ pc = "sleep"
    /\ lock = "free"
    /\ lock' = WithLock
    /\ args' = Get(context, "args")
    /\ command' = Get(context, "command")
    /\ message' = Get(context, "message")
    /\ pc' = "while"
    /\ enq' = <<>>
    /\ UNCHANGED <<context, i, PLUGINS, EVENTS, queue, matched,
                   rpc, rin, rest, messages, sent,
                   failed, running, din, dret>>

\* while not self.context_stale and args
StaleOnly == ~context_stale(context)
WhileCond == ~context_stale(context) /\ Truthy(args)

\* if command and command.isupper()
AfterPlugins == IF Truthy(command) /\ IsUpper(command[1]) THEN "events" ELSE "mark"

\* if message.startswith(prefix)
AfterTest == IF StartsWith(message[1], CMD_PREFIX) THEN "plugins" ELSE AfterPlugins

\* after the event loop the context is marked consumed
SkipMark == "while"
BackToPlugins == "plugins"
AfterEvents == "mark"

\* message.startswith(prefix) on a context without 'message': get returned
\* None, the call raises AttributeError, the `with` block gives the lock
\* back and the thread started by run() ends
MessageMissing ==
    /\ pc = "while"
    /\ WhileCond
    /\ message = None
    /\ pc' = "dead"
    /\ lock' = "free"
    /\ UNCHANGED <<context, args, command, message, i, PLUGINS, EVENTS, queue,
                   matched, enq, rpc, rin, rest, messages, sent,
                   failed, running, din, dret>>

EnterBody ==
    /\ pc = "while"
    /\ WhileCond
    /\ message # None
    /\ pc' = AfterTest
    /\ i' = 1
    /\ matched' = IF matched < MaxMatched THEN matched + 1 ELSE matched
    /\ UNCHANGED <<context, lock, args, command, message, PLUGINS, EVENTS,
                   queue, enq, rpc, rin, rest, messages, sent,
                   failed, running, din, dret>>

\* a private copy of the descriptors as they were configured at start-up
StartupCopy(list, k) ==
    LET fs == list[k].funcs
    IN  [list[k] EXCEPT !.funcs = [n \in DOMAIN fs |-> [fs[n] EXCEPT !.version = 0]]]

\* `for plugin in self.config[...]`: the element the iteration yields is the
\* descriptor the shared list holds now
PluginAt(list, k) == list[k]

\* one iteration of `for plugin in self.config['PLUGINS']`
PluginStep ==
    /\ pc = "plugins"
    /\ i <= Len(PLUGINS)
    /\ LET d == [PluginAt(PLUGINS, i) EXCEPT !.context = Some(CopyContext(context))]
           hit == HookMatches("command", CMD_PREFIX \o d.hook, message[1])
       IN  /\ hit => Len(queue) < MaxQueue
           /\ PLUGINS' = [PLUGINS EXCEPT ![i] = d]
           /\ queue' = IF hit THEN Append(queue, Task("command", d, context))
                              ELSE queue
           /\ enq' = IF hit THEN Append(enq, <<"command", d.hook>>) ELSE enq
    /\ i' = i + 1
    /\ UNCHANGED <<context, lock, pc, args, command, message, EVENTS, matched,
                   rpc, rin, rest, messages, sent,
                   failed, running, din, dret>>

PluginsDone ==
    /\ pc = "plugins"
    /\ i > Len(PLUGINS)
    /\ pc' = AfterPlugins
    /\ i' = 1
    /\ UNCHANGED <<context, lock, args, command, message, PLUGINS, EVENTS,
                   queue, matched, enq, rpc, rin, rest, messages, sent,
                   failed, running, din, dret>>

\* one iteration of `for event in self.config['EVENTS']`
EventStep ==
    /\ pc = "events"
    /\ i <= Len(EVENTS)
    /\ LET d == [PluginAt(EVENTS, i) EXCEPT !.context = Some(CopyContext(context))]
           hit == HookMatches("event", d.hook, command[1])
       IN  /\ hit => Len(queue) < MaxQueue
           /\ EVENTS' = [EVENTS EXCEPT ![i] = d]
           /\ queue' = IF hit THEN Append(queue, Task("event", d, context))
                              ELSE queue
           /\ enq' = IF hit THEN Append(enq, <<"event", d.hook>>) ELSE enq
    /\ i' = i + 1
    /\ UNCHANGED <<context, lock, pc, args, command, message, PLUGINS, matched,
                   rpc, rin, rest, messages, sent,
                   failed, running, din, dret>>

EventsDone ==
    /\ pc = "events"
    /\ i > Len(EVENTS)
    /\ pc' = AfterEvents
    /\ i' = 1
    /\ UNCHANGED <<context, lock, args, command, message, PLUGINS, EVENTS,
                   queue, matched, enq, rpc, rin, rest, messages, sent,
                   failed, running, din, dret>>

\* self.irc.context['stale'] = True, then the loop test again
Mark ==
    /\ pc = "mark"
    /\ context' = MarkStale(context)
    /\ pc' = "while"
    /\ UNCHANGED <<lock, args, command, message, i, PLUGINS, EVENTS, queue,
                   matched, enq, rpc, rin, rest, messages, sent,
                   failed, running, din, dret>>

\* the loop test fails: the lock is released and the thread sleeps again
Release ==
    /\ pc = "while"
    /\ ~WhileCond
    /\ lock' = "free"
    /\ pc' = "sleep"
    /\ args' = None
    /\ command' = None
    /\ message' = None
    /\ enq' = <<>>
    /\ UNCHANGED <<context, i, PLUGINS, EVENTS, queue, matched,
                   rpc, rin, rest, messages, sent,
                   failed, running, din, dret>>

----------------------------------------------------------------------------
\* The program

NoCall == [message |-> EmptyStr, sender |-> EmptyStr, user |-> EmptyStr,
           action |-> FALSE, notice |-> FALSE, line_limit |-> 1,
           depth_left |-> 0]

\* the registry the configuration supplies at start-up
InitialPlugins == {<<>>, <<Descriptor(<<"p">>, <<"f1", "f2">>)>>}

Init ==
    /\ context = EmptyDict
    /\ lock = "free"
    /\ pc = "sleep"
    /\ args = None
    /\ command = None
    /\ message = None
    /\ i = 1
    /\ PLUGINS \in InitialPlugins
    /\ EVENTS = <<>>
    /\ queue = <<>>
    /\ matched = 0
    /\ enq = <<>>
    /\ rpc = "idle"
    /\ rin = NoCall
    /\ rest = EmptyStr
    /\ messages = <<>>
    /\ sent = <<>>
    /\ failed = 0
    /\ running = <<>>
    /\ din = None
    /\ dret = None

Next ==
    \/ \E line \in Lines : Publish(line)
    \/ Acquire
    \/ EnterBody
    \/ PluginStep
    \/ PluginsDone
    \/ EventStep
    \/ EventsDone
    \/ Mark
    \/ Release
    \/ WorkerRun
    \/ \E hook \in PluginHooks, func \in Funcs : Command(hook, func)
    \/ \E hook \in EventHooks, func \in Funcs : Event(hook, func)
    \/ \E hook \in PluginHooks, func \in Funcs : AddCommand(hook, func)
    \/ \E hook \in EventHooks, func \in Funcs : AddEvent(hook, func)
    \/ \E hook \in PluginHooks, func \in Funcs : RemoveCommand(hook, func)
    \/ \E hook \in EventHooks, func \in Funcs : RemoveEvent(hook, func)

Spec == Init /\ [][Next]_vars

----------------------------------------------------------------------------
\* ReplyChannel: Bot.reply

\* Python slices s[:n] and s[n:], for any integer n
SliceStart(s, n) ==
    IF n >= 0 THEN (IF n < Len(s) THEN n ELSE Len(s))
    ELSE (IF Len(s) + n > 0 THEN Len(s) + n ELSE 0)
SliceTo(s, n) == SubSeq(s, 1, SliceStart(s, n))
SliceFrom(s, n) == SubSeq(s, SliceStart(s, n) + 1, Len(s))

\* if context['sender'].startswith('#'): recipient = context['sender']
\* else: recipient = context['user']
AlwaysUser(sender, user) == user
Recipient(sender, user) == IF StartsWith(sender, <<"#">>) THEN sender ELSE user

\* message, extra = message[:line_limit], message[line_limit:]
ChunkOf(m, limit) == SliceTo(m, limit)
ExtraOf(m, limit) == SliceFrom(m, limit)

\* self.irc.send_message(recipient, message, action, notice)
SendCall(recipient, text, action, notice) ==
    [recipient |-> recipient, text |-> text, action |-> action, notice |-> notice]

\* How many nested calls of handle_long_message the interpreter still
\* allows when reply is entered (sys.getrecursionlimit() less the frames of
\* the caller) is part of the call's input, `depth_left`.  MaxDepth is a low
\* value, which the longest messages of the model exceed as a message of
\* thousands of chunks exceeds the default limit of 1000; Roomy is enough
\* for every message of the model split with a positive line_limit.
MaxDepth == 4
Roomy == MaxMsgLen + 1
DepthsLeft == {MaxDepth, Roomy}

\* the arguments of the calls to reply
Chars == {"a", "b"}
Strings(n) == UNION {[1..k -> Chars] : k \in 0..n}
ReplyInputs ==
    [message : Strings(MaxMsgLen),
     sender : {<<"#", "c">>, <<"n", "#">>},
     user : {<<"u">>},
     action : BOOLEAN, notice : BOOLEAN,
     line_limit : 1..MaxLimit,
     depth_left : DepthsLeft]

\* reply is entered: handle_long_message(message) is called
ReplyStart ==
    /\ rpc = "start"
    /\ rest' = rin.message
    /\ rpc' = "split"
    /\ UNCHANGED <<rin, messages, sent>>
    /\ UNCHANGED dispatchVars

\* one call of handle_long_message; each call still open is one level deep
Split ==
    /\ rpc = "split"
    /\ Len(messages) < rin.depth_left
    /\ messages' = Append(messages, ChunkOf(rest, rin.line_limit))
    /\ IF ExtraOf(rest, rin.line_limit) # EmptyStr
       THEN /\ rest' = ExtraOf(rest, rin.line_limit)
            /\ rpc' = "split"
       ELSE /\ rest' = EmptyStr
            /\ rpc' = "send"
    /\ UNCHANGED <<rin, sent>>
    /\ UNCHANGED dispatchVars

\* one iteration of `for message in messages`
SendChunk ==
    /\ rpc = "send"
    /\ Len(sent) < Len(messages)
    /\ sent' = Append(sent, SendCall(Recipient(rin.sender, rin.user),
                                     messages[Len(sent) + 1],
                                     rin.action, rin.notice))
    /\ UNCHANGED <<rpc, rin, rest, messages>>
    /\ UNCHANGED dispatchVars

\* reply returns
ReplyReturn ==
    /\ rpc = "send"
    /\ Len(sent) = Len(messages)
    /\ rpc' = "done"
    /\ UNCHANGED <<rin, rest, messages, sent>>
    /\ UNCHANGED dispatchVars

\* handle_long_message is called with no nested call left: the
\* call raises, reply is left by the exception and nothing has been sent
RecursionError ==
    /\ rpc = "split"
    /\ Len(messages) >= rin.depth_left
    /\ rpc' = "raised"
    /\ UNCHANGED <<rin, rest, messages, sent>>
    /\ UNCHANGED dispatchVars

InitReply ==
    /\ context = EmptyDict
    /\ lock = "free"
    /\ pc = "sleep"
    /\ args = None
    /\ command = None
    /\ message = None
    /\ i = 1
    /\ PLUGINS = <<>>
    /\ EVENTS = <<>>
    /\ queue = <<>>
    /\ matched = 0
    /\ enq = <<>>
    /\ rpc = "start"
    /\ rin \in ReplyInputs
    /\ rest = EmptyStr
    /\ messages = <<>>
    /\ sent = <<>>
    /\ failed = 0
    /\ running = <<>>
    /\ din = None
    /\ dret = None

NextReply ==
    \/ ReplyStart
    \/ Split
    \/ RecursionError
    \/ SendChunk
    \/ ReplyReturn

SpecReply == InitReply /\ [][NextReply]_vars

\* reply called with any natural number as line_limit, zero included
AnyLimitInputs ==
    [message : Strings(MaxMsgLen),
     sender : {<<"#", "c">>},
     user : {<<"u">>},
     action : {FALSE}, notice : {FALSE},
     line_limit : 0..MaxLimit,
     depth_left : DepthsLeft]

InitReplyAny ==
    /\ context = EmptyDict
    /\ lock = "free"
    /\ pc = "sleep"
    /\ args = None
    /\ command = None
    /\ message = None
    /\ i = 1
    /\ PLUGINS = <<>>
    /\ EVENTS = <<>>
    /\ queue = <<>>
    /\ matched = 0
    /\ enq = <<>>
    /\ rpc = "start"
    /\ rin \in AnyLimitInputs
    /\ rest = EmptyStr
    /\ messages = <<>>
    /\ sent = <<>>
    /\ failed = 0
    /\ running = <<>>
    /\ din = None
    /\ dret = None

NextReplyAny ==
    \/ ReplyStart
    \/ Split
    \/ RecursionError
    \/ SendChunk
    \/ ReplyReturn

SpecReplyAny == InitReplyAny /\ [][NextReplyAny]_vars

----------------------------------------------------------------------------
\* Properties of the dispatch loop

PublishStep == \E line \in Lines : Publish(line)

\* the entries of the running cycle's enqueue history of one kind
OfKind(e, kind) == SelectSeq(e, LAMBDA x : x[1] = kind)

\* the registered hooks of a list, in registry order
HooksOf(list, kind) == [k \in 1..Len(list) |-> <<kind, list[k].hook>>]

\* C1: no double dispatch.  The matching body runs at most once over each
\* published context, and no step taken while the live context is stale
\* adds an invocation to the queue.
C1_NoDoubleDispatch ==
    /\ [](matched <= 1)
    /\ [][context_stale(context) =>
            (Len(queue') <= Len(queue) /\ (~PublishStep => matched' = matched))]_vars

\* a published context was matched once, is consumed and left work queued
C1_Witness ==
    /\ matched = 1
    /\ context_stale(context)
    /\ context.keys # {}
    /\ pc = "sleep"
    /\ queue # <<>>

\* C2: no context is skipped.  Whenever ContextSource overwrites a context
\* it published with non-empty args, a Dispatcher cycle has matched it.
C2_NoneSkipped ==
    [][(PublishStep /\ context.keys # {} /\ context.args # <<>>)
            => matched >= 1]_vars

\* C3: consumption.  Once the body has run over the live context the loop
\* test finds it stale, and the cycle that releases the lock leaves the
\* context stale and the Dispatcher waiting for a fresh one.
C3_Consumed ==
    /\ []((pc = "while" /\ matched >= 1) => context_stale(context))
    /\ [][(lock = "dispatcher" /\ lock' = "free" /\ matched >= 1)
            => (context_stale(context') /\ pc' = "sleep")]_vars

\* a context that matched nothing has been consumed and the lock released
C3_Witness ==
    /\ lock = "free"
    /\ pc = "sleep"
    /\ matched = 1
    /\ context = MarkStale(Line(None, << <<"x">> >>, <<"p", ".", "p">>))
    /\ queue = <<>>

\* C4: snapshot isolation.  The dict a queued invocation carries holds the
\* value the live context had when the invocation was enqueued.
C4_SnapshotIsolation ==
    \A k \in 1..Len(queue) : Deref(queue[k].snap, context) = queue[k].seen

\* an invocation still queued after the live context was overwritten and a
\* later cycle re-assigned its descriptor's 'context'
C4_Witness ==
    \E k \in 1..Len(queue) :
        /\ queue[k].kind = "command"
        /\ ~context_stale(context)
        /\ context.message # queue[k].seen.message
        /\ \E d \in Range(PLUGINS) :
              /\ d.hook = queue[k].hook
              /\ d.context # None
              /\ d.context # Some(queue[k].snap)

\* C5: command matching.  When the plugin loop of a cycle ends, every
\* registered plugin descriptor whose prefixed hook occurs in the message has
\* been enqueued in that cycle; a cycle over a message that does not start
\* with the prefix enqueues no plugin.
C5_CommandMatching ==
    /\ (pc = "plugins" /\ i > Len(PLUGINS)) =>
          \A d \in Range(PLUGINS) :
              Contains(message[1], CMD_PREFIX \o d.hook) =>
                  <<"command", d.hook>> \in Range(enq)
    /\ (lock = "dispatcher" /\ message # None
            /\ ~StartsWith(message[1], CMD_PREFIX)) =>
          OfKind(enq, "command") = <<>>

\* what a cycle enqueues: when its event loop ends, every registered event
\* whose hook equals the command exactly once; no event when the command
\* is absent or not upper-case
EventsOfCycle ==
    /\ (pc = "events" /\ i > Len(EVENTS)) =>
          \A d \in Range(EVENTS) :
              d.hook = command[1] =>
                  Cardinality({k \in 1..Len(enq) :
                                  enq[k] = <<"event", d.hook>>}) = 1
    /\ (lock = "dispatcher" /\ ~(Truthy(command) /\ IsUpper(command[1]))) =>
          OfKind(enq, "event") = <<>>

\* an event descriptor for the live context's command that an earlier
\* cycle has passed over (its 'context' is assigned): it was registered
\* before the live context was published and has been ever since
RegisteredBefore ==
    \E d \in Range(EVENTS) : d.hook = context.command /\ d.context # None

\* C6: event matching.  Every published context whose command is fully
\* upper-case and equal to a registered event hook is matched by a cycle,
\* which enqueues that event exactly once; a cycle over a context whose
\* command is absent or not upper-case enqueues no event.
C6_EventMatching ==
    /\ []EventsOfCycle
    /\ [][(PublishStep /\ "command" \in context.keys /\ IsUpper(context.command)
              /\ RegisteredBefore)
            => matched = 1]_vars

----------------------------------------------------------------------------
\* Properties of reply

RECURSIVE Concat(_)
Concat(ss) == IF ss = <<>> THEN <<>> ELSE Head(ss) \o Concat(Tail(ss))

SentTexts == [k \in 1..Len(sent) |-> sent[k].text]
SentLengths == [k \in 1..Len(sent) |-> Len(sent[k].text)]

\* C7: reply chunking.  For every message and line_limit >= 1 reply does
\* not fail, and when it returns the chunks handed to send_message are no
\* longer than line_limit, all but the last have exactly line_limit
\* characters, and in order they make up the message.
C7_Chunking ==
    /\ rpc # "raised"
    /\ rpc = "done" =>
          /\ Len(sent) >= 1
          /\ \A k \in 1..Len(sent) : Len(sent[k].text) <= rin.line_limit
          /\ \A k \in 1..(Len(sent) - 1) : Len(sent[k].text) = rin.line_limit
          /\ Concat(SentTexts) = rin.message

\* C8: reply recipient.  Every chunk of a call goes to the same recipient
\* with the call's action and notice flags: the sender when its first
\* character is '#', the user otherwise.
C8_Recipient ==
    \A k \in 1..Len(sent) :
        /\ sent[k].recipient =
              (IF Len(rin.sender) > 0 /\ rin.sender[1] = "#"
               THEN rin.sender ELSE rin.user)
        /\ sent[k].action = rin.action
        /\ sent[k].notice = rin.notice

\* several chunks were sent to a channel, as an action
C8_Witness ==
    /\ rpc = "done"
    /\ Len(sent) >= 2
    /\ rin.sender = <<"#", "c">>
    /\ rin.action /\ ~rin.notice
    /\ \A k \in 1..Len(sent) : sent[k].recipient = <<"#", "c">>

----------------------------------------------------------------------------
\* Properties of the registry

UniqueHooks(list) ==
    \A j, k \in 1..Len(list) : list[j].hook = list[k].hook => j = k

FuncsBound(list, hook) == {d.funcs : d \in Lookup(list, hook)}

\* C9: hook uniqueness and replace-on-register.  No bucket holds two
\* descriptors with one hook, and after a registration of function f under
\* a hook the hook is bound to the list [f] alone.
C9_UniqueReplace ==
    /\ [](UniqueHooks(PLUGINS) /\ UniqueHooks(EVENTS))
    /\ [][\A func \in Funcs :
            /\ \A hook \in PluginHooks :
                  (Command(hook, func) \/ AddCommand(hook, func)) =>
                      FuncsBound(PLUGINS', hook) = {<<func>>}
            /\ \A hook \in EventHooks :
                  (Event(hook, func) \/ AddEvent(hook, func)) =>
                      FuncsBound(EVENTS', hook) = {<<func>>}]_vars

\* hook p, configured with [f1, f2], was re-registered with f2 alone after
\* a cycle had assigned the descriptors' contexts
C9_Witness ==
    /\ Len(PLUGINS) = 2
    /\ PLUGINS[1].hook = <<"p">>
    /\ PLUGINS[1].funcs = <<"f2">>
    /\ PLUGINS[1].context = None
    /\ PLUGINS[2].hook = <<"q">>
    /\ PLUGINS[2].context # None

\* what remove leaves of a hook's descriptors
AfterRemove(list, hook, func) ==
    {[d EXCEPT !.funcs = SelectSeq(@, LAMBDA g : g # func)] :
        d \in {e \in Lookup(list, hook) : e.funcs # <<func>>}}

\* C10: removal.  Removing a hook's only function removes its descriptor,
\* removing one of several leaves the descriptor with the others, and an
\* invocation is only ever enqueued for a hook that is registered.
C10_Removal ==
    /\ [][\A func \in Funcs :
            /\ \A hook \in PluginHooks :
                  RemoveCommand(hook, func) =>
                      Lookup(PLUGINS', hook) = AfterRemove(PLUGINS, hook, func)
            /\ \A hook \in EventHooks :
                  RemoveEvent(hook, func) =>
                      Lookup(EVENTS', hook) = AfterRemove(EVENTS, hook, func)]_vars
    /\ [][Len(queue') > Len(queue) =>
            LET t == queue'[Len(queue')]
            IN  Lookup(IF t.kind = "command" THEN PLUGINS ELSE EVENTS, t.hook)
                    # {}]_vars
    /\ [](\A d \in Range(PLUGINS) \cup Range(EVENTS) : d.funcs # <<>>)

\* hook p was dispatched with both functions, then lost them one by one and
\* is no longer registered
C10_Witness ==
    /\ PLUGINS = <<>>
    /\ queue # <<>>
    /\ queue[1].hook = <<"p">>
    /\ queue[1].funcs = <<"f1", "f2">>
    /\ pc = "sleep"

----------------------------------------------------------------------------
\* Registry writes racing with a cycle's iteration

Occurrences(kind, hook) ==
    Cardinality({k \in 1..Len(enq) : enq[k] = <<kind, hook>>})

\* a descriptor keeps its assigned 'context' for as long as it stays in the
\* list (a removal followed by a registration makes a new descriptor).  One
\* that carries the snapshot of another context than the live one was
\* assigned by an earlier cycle: it has been registered throughout this one.
RegisteredThroughout(d) ==
    /\ d.context # None
    /\ d.context # Some(CopyContext(context))

\* C19: registry writes against Dispatcher reads.  When a loop of a cycle
\* ends, every descriptor that stayed registered from an earlier cycle on and
\* matches the context has been enqueued exactly once in this cycle, whatever
\* registrations and removals of other hooks ran meanwhile.
C19_ExclusiveWrites ==
    /\ (pc = "plugins" /\ i > Len(PLUGINS)) =>
          \A d \in Range(PLUGINS) :
              (RegisteredThroughout(d)
                  /\ Contains(message[1], CMD_PREFIX \o d.hook))
                  => Occurrences("command", d.hook) = 1
    /\ (pc = "events" /\ i > Len(EVENTS)) =>
          \A d \in Range(EVENTS) :
              (RegisteredThroughout(d) /\ d.hook = command[1])
                  => Occurrences("event", d.hook) = 1

----------------------------------------------------------------------------
\* The ReloadCoordinator (ReloadHandler), created by Bot.run with the two
\* lists and the registry; it runs beside the Dispatcher

MaxReloads == 2

\* a function object: reloading its module makes a new object of the same name
Fn(name, version) == [name |-> name, version |-> version]
Reloaded(f) == [f EXCEPT !.version = @ + 1]
ReloadedFuncs(funcs) == [n \in DOMAIN funcs |-> Reloaded(funcs[n])]

\* the first half of a clear-then-set: the hook is left without functions
ClearFunctions(list, hook, newFunctions) ==
    [k \in 1..Len(list) |->
        IF list[k].hook = hook THEN Descriptor(hook, <<>>) ELSE list[k]]

\* Registry.replaceFunctions: the hook's descriptor is replaced as a whole, in
\* one step, by one with the same hook and the new functions; an unknown hook
\* changes nothing
replaceFunctions(list, hook, newFunctions) ==
    [k \in 1..Len(list) |->
        IF list[k].hook = hook THEN Descriptor(hook, newFunctions) ELSE list[k]]

ReloadCommand(hook) ==
    /\ \E d \in Range(PLUGINS) :
          /\ d.hook = hook
          /\ \A n \in DOMAIN d.funcs : d.funcs[n].version < MaxReloads
          /\ PLUGINS' = replaceFunctions(PLUGINS, hook, ReloadedFuncs(d.funcs))
    /\ UNCHANGED <<context, lock, pc, args, command, message, i, EVENTS, queue,
                   matched, enq, rpc, rin, rest, messages, sent,
                   failed, running, din, dret>>

ReloadEvent(hook) ==
    /\ \E d \in Range(EVENTS) :
          /\ d.hook = hook
          /\ \A n \in DOMAIN d.funcs : d.funcs[n].version < MaxReloads
          /\ EVENTS' = replaceFunctions(EVENTS, hook, ReloadedFuncs(d.funcs))
    /\ UNCHANGED <<context, lock, pc, args, command, message, i, PLUGINS, queue,
                   matched, enq, rpc, rin, rest, messages, sent,
                   failed, running, din, dret>>

\* the registry as configured when run() starts the two threads
StartupPlugins == <<Descriptor(<<"p">>, <<Fn("f1", 0), Fn("f2", 0)>>)>>
StartupEvents == <<Descriptor(<<"J">>, <<Fn("f1", 0)>>)>>

\* the state of everything but the registry when the threads start
Quiescent ==
    /\ context = EmptyDict
    /\ lock = "free"
    /\ pc = "sleep"
    /\ args = None
    /\ command = None
    /\ message = None
    /\ i = 1
    /\ queue = <<>>
    /\ matched = 0
    /\ enq = <<>>
    /\ rpc = "idle"
    /\ rin = NoCall
    /\ rest = EmptyStr
    /\ messages = <<>>
    /\ sent = <<>>
    /\ failed = 0
    /\ running = <<>>
    /\ din = None
    /\ dret = None

Cycle ==
    \/ Acquire
    \/ EnterBody
    \/ PluginStep
    \/ PluginsDone
    \/ EventStep
    \/ EventsDone
    \/ Mark
    \/ Release

InitReload ==
    /\ Quiescent
    /\ PLUGINS = StartupPlugins
    /\ EVENTS = StartupEvents

NextReload ==
    \/ \E line \in Lines : Publish(line)
    \/ Cycle
    \/ WorkerRun
    \/ \E hook \in PluginHooks : ReloadCommand(hook)
    \/ \E hook \in EventHooks : ReloadEvent(hook)

SpecReload == InitReload /\ [][NextReload]_vars

\* the functions of one list all come from the same load of their module
Whole(funcs) ==
    \A a, b \in DOMAIN funcs : funcs[a].version = funcs[b].version

\* C11: reload visibility and atomicity.  Every invocation a cycle enqueues
\* carries the whole function list that the registry holds for the hook at
\* that step, so the first matching cycle after a swap enqueues the new
\* functions, and no enqueued list mixes old and new functions.
C11_ReloadVisibility ==
    [][Len(queue') > Len(queue) =>
          LET t == queue'[Len(queue')]
              list == IF t.kind = "command" THEN PLUGINS ELSE EVENTS
          IN  /\ \E d \in Range(list) : d.hook = t.hook /\ d.funcs = t.funcs
              /\ Whole(t.funcs)]_vars

\* an invocation of the reloaded functions of hook p is queued
C11_Witness ==
    \E k \in 1..Len(queue) :
        /\ queue[k].hook = <<"p">>
        /\ queue[k].funcs = <<Fn("f1", 1), Fn("f2", 1)>>


\* C12: a reload never leaves a hook unbound.  In every state, reloads
\* running or not, each hook configured at start-up has a descriptor with as
\* many functions as it was configured with, and every queued invocation has
\* a non-empty function list.
C12_NeverUnbound ==
    /\ \A d \in Range(StartupPlugins) :
          \E e \in Range(PLUGINS) :
              e.hook = d.hook /\ Len(e.funcs) = Len(d.funcs)
    /\ \A d \in Range(StartupEvents) :
          \E e \in Range(EVENTS) :
              e.hook = d.hook /\ Len(e.funcs) = Len(d.funcs)
    /\ \A k \in 1..Len(queue) : queue[k].funcs # <<>>

\* hook p was swapped inside a cycle: the cycle's plugin loop enqueued it,
\* and at the event loop its descriptor is a new one, not yet passed over
C12_Witness ==
    /\ pc = "events"
    /\ <<"command", <<"p">>>> \in Range(enq)
    /\ PLUGINS[1].context = None
    /\ PLUGINS[1].funcs # <<>>


----------------------------------------------------------------------------
\* The WorkerPool (ThreadPool behind PluginHandler.enqueue_plugin): workers
\* take invocations from the queue and run their functions on the snapshot

Workers == 2
MaxFailures == 2

\* sequence s without its k-th element
Without(s, k) == SubSeq(s, 1, k - 1) \o SubSeq(s, k + 1, Len(s))

\* an uncaught failure ends the pool: what the other workers run is lost
PoolDies(run, k) == <<>>

\* the worker's boundary catches the failure: only that invocation ends
Caught(run, k) == Without(run, k)

\* an idle worker takes the oldest queued invocation
WorkerTake ==
    /\ queue # <<>>
    /\ Len(running) < Workers
    /\ running' = Append(running, Head(queue))
    /\ queue' = Tail(queue)
    /\ UNCHANGED <<context, lock, pc, args, command, message, i, PLUGINS,
                   EVENTS, matched, enq, rpc, rin, rest, messages, sent,
                   failed, din, dret>>

\* the functions of a running invocation return
WorkerFinish(k) ==
    /\ k \in 1..Len(running)
    /\ running' = Without(running, k)
    /\ UNCHANGED <<context, lock, pc, args, command, message, i, PLUGINS,
                   EVENTS, queue, matched, enq, rpc, rin, rest, messages, sent,
                   failed, din, dret>>

\* a function of a running invocation raises: caught and logged by the worker
WorkerRaise(k) ==
    /\ k \in 1..Len(running)
    /\ failed < MaxFailures
    /\ running' = Caught(running, k)
    /\ failed' = failed + 1
    /\ UNCHANGED <<context, lock, pc, args, command, message, i, PLUGINS,
                   EVENTS, queue, matched, enq, rpc, rin, rest, messages, sent,
                   din, dret>>

InitPool ==
    /\ Quiescent
    /\ PLUGINS = StartupPlugins
    /\ EVENTS = StartupEvents

NextPool ==
    \/ \E line \in Lines : Publish(line)
    \/ Cycle
    \/ WorkerTake
    \/ \E k \in 1..Workers : WorkerFinish(k)
    \/ \E k \in 1..Workers : WorkerRaise(k)

SpecPool == InitPool /\ [][NextPool]_vars

\* C13: handler failure isolation.  A step in which a handler function
\* raises ends that one invocation only: every other running invocation
\* keeps running, the queue is as it was, and the Dispatcher's position,
\* lock, context and registry are untouched, so it goes on with its cycles.
C13_FailureIsolation ==
    [][failed' > failed =>
          /\ \E k \in 1..Len(running) : running' = Without(running, k)
          /\ UNCHANGED <<queue, pc, lock, context, args, command, message, i,
                         PLUGINS, EVENTS, enq>>]_vars

\* one invocation has failed while another is running and a third is queued
C13_Witness ==
    /\ failed = 1
    /\ running # <<>>
    /\ queue # <<>>


----------------------------------------------------------------------------
\* The Dispatcher over every record the context slot can hold

\* a context dict with each of args, command, message and stale present or not
AnyRecord(a, c, m, st) ==
    [keys |-> {"sender", "user"}
                \cup (IF a = None THEN {} ELSE {"args"})
                \cup (IF c = None THEN {} ELSE {"command"})
                \cup (IF m = None THEN {} ELSE {"message"})
                \cup (IF st = None THEN {} ELSE {"stale"}),
     sender |-> <<"#", "c">>, user |-> <<"n">>,
     command |-> IF c = None THEN EmptyStr ELSE c[1],
     args |-> IF a = None THEN <<>> ELSE a[1],
     message |-> IF m = None THEN EmptyStr ELSE m[1],
     stale |-> IF st = None THEN FALSE ELSE st[1]]

AnyRecords ==
    { AnyRecord(a, c, m, st) :
        a \in {None, Some(<<>>), Some(<< <<"x">> >>)},
        c \in {None, Some(EmptyStr), Some(<<"J">>)},
        m \in {None, Some(EmptyStr), Some(<<".", "p">>)},
        st \in {None, Some(TRUE), Some(FALSE)} }

InitAny ==
    /\ Quiescent
    /\ PLUGINS = StartupPlugins
    /\ EVENTS = StartupEvents

NextAny ==
    \/ \E line \in AnyRecords : Publish(line)
    \/ Cycle
    \/ MessageMissing
    \/ WorkerRun

SpecAny == InitAny /\ [][NextAny]_vars

\* C14: the Dispatcher loop has no terminal state.  Whatever record the
\* context slot holds (args, command, message and stale each present, empty
\* or absent), the polling thread never ends.
C14_NoTerminalState == pc # "dead"


\* the running cycle finds nothing to do: the context is stale (a record
\* without 'stale' counts as stale) or its args are absent or empty
Idle == context_stale(context) \/ ~Truthy(Get(context, "args"))

\* C15: an idle cycle is a no-op.  Taking the lock changes nothing but the
\* thread's own locals, and a cycle whose loop test finds the context stale
\* or args empty goes back to sleep with the lock released, leaving the
\* context (its stale flag included), every descriptor and the queue as
\* they were.
C15_IdleCycle ==
    [][/\ (pc = "sleep" /\ pc' # pc) =>
              (pc' = "while" /\ UNCHANGED <<context, PLUGINS, EVENTS, queue>>)
       /\ (pc = "while" /\ Idle /\ pc' # pc) =>
              /\ pc' = "sleep"
              /\ lock' = "free"
              /\ UNCHANGED <<context, PLUGINS, EVENTS, queue>>]_vars

\* a cycle holds the lock over a fresh, never matched context with empty args
C15_Witness ==
    /\ pc = "while"
    /\ lock = "dispatcher"
    /\ matched = 0
    /\ ~context_stale(context)
    /\ ~Truthy(args)


----------------------------------------------------------------------------
\* The command decorator: Bot.command(hook=None, **kwargs)

\* func.func_name
func_name(func) == IF func = "f1" THEN <<"f", "1">> ELSE <<"f", "2">>

\* keyword options a use of the decorator may carry
Options == {{}, {<<"threaded", TRUE>>}}

\* the ways command is used on a function: bare (@command, the function
\* itself arrives as `hook`), or called first (@command(...)) with the hook
\* absent, empty or a name, and with or without options
Uses ==
    {[form |-> "bare", hook |-> None, kwargs |-> {}, func |-> f] : f \in Funcs}
    \cup [form : {"call"},
          hook : {None, Some(EmptyStr), Some(<<"p">>), Some(<<"q">>)},
          kwargs : Options, func : Funcs]

\* plugin.setdefault('hook', func.func_name) replaced by an assignment
NameOverHook(use) ==
    [hook |-> func_name(use.func), funcs |-> <<use.func>>, context |-> None,
     options |-> use.kwargs]

\* the plugin dict that wrapper hands to update_plugins.  Called first, the
\* hook is stored when it is truthy and the options are merged; wrapper then
\* fills in the function's name where no hook is stored and sets funcs.
command_plugin(use) ==
    LET stored == IF use.form = "call" /\ Truthy(use.hook)
                  THEN use.hook ELSE None
        merged == IF use.form = "call" THEN use.kwargs ELSE {}
    IN  [hook |-> IF stored # None THEN stored[1] ELSE func_name(use.func),
         funcs |-> <<use.func>>, context |-> None, options |-> merged]

\* what the use evaluates to: wrapper returns func
command_result(use) == use.func

Decorate(use) ==
    /\ PLUGINS' = update_plugins(PLUGINS, command_plugin(use))
    /\ din' = Some(use)
    /\ dret' = Some(command_result(use))
    /\ UNCHANGED <<context, lock, pc, args, command, message, i, EVENTS, queue,
                   matched, enq, rpc, rin, rest, messages, sent,
                   failed, running>>

InitDecorator ==
    /\ Quiescent
    /\ PLUGINS = <<>>
    /\ EVENTS = <<>>

NextDecorator == \E use \in Uses : Decorate(use)

SpecDecorator == InitDecorator /\ [][NextDecorator]_vars

\* the last use registered a descriptor with this hook, the wrapped function
\* alone, the options it carried, and returned the wrapped function
RegisteredAs(hook) ==
    /\ \E d \in Range(PLUGINS) :
          /\ d.hook = hook
          /\ d.funcs = <<din[1].func>>
          /\ d.options = din[1].kwargs
    /\ dret = Some(din[1].func)

\* C16 as stated: without an explicit hook the descriptor's hook is the
\* function's name, and when a hook string is given it is that string; the
\* function list is the wrapped function alone, the options are merged, and
\* the wrapped function is returned.
C16_HookNaming ==
    din # None =>
        RegisteredAs(IF din[1].hook = None THEN func_name(din[1].func)
                                           ELSE din[1].hook[1])

\* C16 amended: the descriptor's hook is the given string when that string
\* is non-empty, and the function's name when no hook or the empty string is
\* given; function list, options and return value as stated.
C16_HookNamingNonEmpty ==
    din # None =>
        RegisteredAs(IF Truthy(din[1].hook) THEN din[1].hook[1]
                                            ELSE func_name(din[1].func))

\* the last use was @command('p', threaded=True) on f2, after other uses
C16_Witness ==
    /\ din # None
    /\ din[1].hook = Some(<<"p">>)
    /\ din[1].kwargs # {}
    /\ Len(PLUGINS) > 1
    /\ \E d \in Range(PLUGINS) : d.hook = <<"p">> /\ d.funcs = <<"f2">>


----------------------------------------------------------------------------
\* Order and atomicity within one cycle

\* C17: enqueue order within one cycle.  Among the invocations a cycle
\* enqueues no plugin comes after an event, the live context does not change
\* while the two loops run, and every invocation is enqueued with a snapshot
\* equal to that live context: all of one cycle carry the same value.
C17_EnqueueOrder ==
    /\ [](\A a, b \in 1..Len(enq) :
              (a < b /\ enq[a][1] = "event") => enq[b][1] = "event")
    /\ [][(pc \in {"plugins", "events"}) => (context' = context)]_vars
    /\ [][(Len(queue') > Len(queue)) =>
              (Deref(queue'[Len(queue')].snap, context') = context)]_vars

\* a cycle over a prefixed PRIVMSG-like line enqueued plugin p, then event J
C17_Witness ==
    /\ pc = "mark"
    /\ enq = << <<"command", <<"p">>>>, <<"event", <<"J">>>> >>


\* C18: read, match and mark belong to one published context.  With the
\* producer writing only under the lock, the args, command and message a
\* running cycle holds are those of the live context, every invocation is
\* enqueued while the live context is the one the cycle read, and the step
\* that sets stale acts on a context the body has matched, changing nothing
\* of it but the flag.
C18_ReadMatchMark ==
    /\ [](pc # "sleep" =>
              /\ args = Get(context, "args")
              /\ command = Get(context, "command")
              /\ message = Get(context, "message"))
    /\ [][(Len(queue') > Len(queue)) =>
              /\ queue'[Len(queue')].seen = context
              /\ Get(queue'[Len(queue')].seen, "message") = message]_vars
    /\ [][(pc = "mark" /\ pc' # pc) =>
              /\ matched >= 1
              /\ context' = [context EXCEPT !.keys = @ \cup {"stale"},
                                            !.stale = TRUE]]_vars

\* a cycle that matched the live context and enqueued from it is about to
\* set stale on that same context
C18_Witness ==
    /\ pc = "mark"
    /\ matched = 1
    /\ queue # <<>>
    /\ queue[Len(queue)].seen = context
    /\ message = Get(context, "message")


----------------------------------------------------------------------------
\* Termination of reply

\* ceil(n / d) for d >= 1
CeilDiv(n, d) == (n + d - 1) \div d

\* C20: reply terminates and sends at least one chunk.  For every message
\* and every line_limit, each nested call of handle_long_message works on a
\* shorter text than the call before, no call fails, and when reply returns
\* it has sent at least one chunk: max(1, ceil(len(message)/line_limit)) of
\* them for a positive line_limit.
C20_ReplyTerminates ==
    /\ [][(rpc = "split" /\ rpc' = "split") => (Len(rest') < Len(rest))]_vars
    /\ [](rpc # "raised")
    /\ [](rpc = "done" =>
            /\ Len(sent) >= 1
            /\ rin.line_limit >= 1 =>
                  Len(sent) = IF Len(rin.message) = 0 THEN 1
                              ELSE CeilDiv(Len(rin.message), rin.line_limit))

====
